---------------------------- MODULE Spec2Model ----------------------------
(***************************************************************************)
(* Model of microros_utils/library_builder.py: the Build driver (run and   *)
(* its stages), the manifest loader, the overlay copy, the archive merge   *)
(* and the include flatten.                                                *)
(*                                                                         *)
(* File and package names are sequences of one-character strings, so that  *)
(* str.endswith, str.split and the shell globs are computed, not assumed.  *)
(* A directory tree is a record [files, dirs]: files is a set of           *)
(* [path, org] (org identifies the content: where the file came from),     *)
(* dirs the set of directory paths; a path is a sequence of names.         *)
(***************************************************************************)
EXTENDS Integers, Sequences, FiniteSets, TLC

VARIABLES
    pc,               \* position of the process in run() / the handler under study
    failed_at,        \* stage whose external tool exited nonzero in this process, or "none"
    ran,              \* stages entered by the current run() invocation
    nruns,            \* number of run() invocations so far
    env,              \* self.env
    dev_packages,     \* self.dev_packages
    mcu_packages,     \* self.mcu_packages
    ignored,          \* the packages whose .ignored is True
    packages_folder,  \* the extra packages folder: <<>> or <<tree>>
    manifest,         \* the YAML document in <packages_folder>/extra_packages.repos
    extra_repos,      \* result of get_repositories_from_yaml
    mcu_src,          \* the tree at self.mcu_src_folder: <<>> or <<tree>>
    lib_tree,         \* the archives under <mcu>/install/lib
    install_include,  \* the tree at <mcu>/install/include: <<>> or <<tree>>
    aux,              \* the files of <build>/aux
    naming,           \* the files of <build>/aux/naming
    aux_lib,          \* <build>/aux/libmicroros.a: <<>> or <<members>>
    walk_todo,        \* archives os.walk has not yielded yet
    prev_library,     \* self.library existed when package_mcu_library was entered
    library,          \* self.library: <<>> or <<members>>
    includes,         \* the tree at self.includes: <<>> or <<tree>>
    include_folders,  \* folders the flatten loop has not visited yet
    after_first       \* the include tree after the first flatten pass: <<>> or <<tree>>

ctlVars == <<pc, failed_at, ran, nruns, env>>
pkgVars == <<dev_packages, mcu_packages, ignored>>
srcVars == <<packages_folder, manifest, extra_repos, mcu_src>>
instVars == <<lib_tree, install_include>>
auxVars == <<aux, naming, aux_lib, walk_todo, prev_library>>
outVars == <<library, includes, include_folders, after_first>>
vars == <<ctlVars, pkgVars, srcVars, instVars, auxVars, outVars>>

----------------------------------------------------------------------------
(* Bounds of the model *)

MaxDepth == 4     \* longest path of an initial include tree
MaxNodes == 2     \* leaves (files or empty directories) of an initial include tree
MaxEntries == 3   \* entries of the `repositories` collection of a manifest
MaxRuns == 2       \* calls of run()
MaxArchives == 2   \* files under <mcu>/install/lib
MaxOverlayDepth == 2  \* longest path of an overlay folder or a source tree

----------------------------------------------------------------------------
(* Strings and sequences *)

\* str.endswith
EndsWith(s, suf) ==
    /\ Len(suf) <= Len(s)
    /\ SubSeq(s, Len(s) - Len(suf) + 1, Len(s)) = suf

Range(f) == {f[i] : i \in DOMAIN f}

IsPrefix(p, q) == Len(p) <= Len(q) /\ SubSeq(q, 1, Len(p)) = p

\* every subset of S with at most k elements
RECURSIVE SubsetsUpTo(_, _)
SubsetsUpTo(S, k) ==
    IF k = 0 THEN {{}}
    ELSE LET prev == SubsetsUpTo(S, k - 1)
         IN  prev \cup {p \cup {x} : p \in prev, x \in S}

\* every sequence over S of length 1..k
SeqsUpTo(S, k) == UNION {[1..n -> S] : n \in 1..k}

\* the elements of the set S as a sequence, in the order of the sequence ord
RECURSIVE InOrder(_, _)
InOrder(S, ord) ==
    IF ord = <<>> THEN <<>>
    ELSE IF Head(ord) \in S THEN <<Head(ord)>> \o InOrder(S, Tail(ord))
         ELSE InOrder(S, Tail(ord))

\* the orders in which a directory scan may yield the names of S
Orders(S) == {o \in [1..Cardinality(S) -> S] : \A i, j \in DOMAIN o : i # j => o[i] # o[j]}

----------------------------------------------------------------------------
(* Directory trees *)

EmptyTree == [files |-> {}, dirs |-> {}]

FilePaths(t) == {f.path : f \in t.files}
IsFile(t, p) == p \in FilePaths(t)
IsDir(t, p) == p = <<>> \/ p \in t.dirs
Exists(t, p) == IsFile(t, p) \/ IsDir(t, p)
OrgAt(t, p) == (CHOOSE f \in t.files : f.path = p).org

\* every name in the tree
NamesOf(t) == UNION {Range(p) : p \in FilePaths(t) \cup t.dirs}

\* os.listdir / os.scandir: the names directly under directory d
listdir(t, d) ==
    {q[Len(d) + 1] : q \in {x \in FilePaths(t) \cup t.dirs : IsPrefix(d, x) /\ Len(x) > Len(d)}}

\* the nonempty prefixes of path p, p included
Prefixes(p) == {SubSeq(p, 1, n) : n \in 1..Len(p)}

\* os.makedirs(d, exist_ok=True) on a path that is not a file
makedirs(t, d) == [t EXCEPT !.dirs = @ \cup Prefixes(d)]

\* shutil.rmtree(p)
rmtree(t, p) ==
    [files |-> {f \in t.files : ~IsPrefix(p, f.path)},
     dirs  |-> {d \in t.dirs : ~IsPrefix(p, d)}]

\* the tree whose leaves are the given files and empty directories
TreeOf(leaves) ==
    [files |-> {[path |-> l.path, org |-> l.path] : l \in {x \in leaves : x.kind = "file"}},
     dirs  |-> UNION {IF l.kind = "dir" THEN Prefixes(l.path)
                      ELSE Prefixes(l.path) \ {l.path} : l \in leaves}]

\* no file lies at or above another leaf
ValidLeaves(leaves) ==
    \A a, b \in leaves : (a # b /\ a.kind = "file") => ~IsPrefix(a.path, b.path)

\* the leaves of an initial tree: a file at any path of at most depth names,
\* or an empty directory <d> or <d>/<d>
Leaves(names, depth) ==
    [path : SeqsUpTo(names, depth), kind : {"file"}]
    \cup [path : {<<d>> : d \in names} \cup {<<d, d>> : d \in names}, kind : {"dir"}]

\* the trees over the given names with at most n leaves
Trees(names, depth, n) ==
    {TreeOf(ls) : ls \in {x \in SubsetsUpTo(Leaves(names, depth), n) : ValidLeaves(x)}}

\* the tree t, the content of its files marked as coming from tag
Tagged(t, tag) == [t EXCEPT !.files = {[path |-> f.path, org |-> <<tag>> \o f.path] : f \in @}]

\* parts of an initial state: what a handler under study does not touch
NoPackages == dev_packages = <<>> /\ mcu_packages = <<>> /\ ignored = {}
NoInstall == lib_tree = {} /\ install_include = <<>>
NoStaging ==
    aux = {} /\ naming = {} /\ aux_lib = <<>> /\ walk_todo = {} /\ prev_library = FALSE
NoOutput == library = <<>> /\ includes = <<>> /\ include_folders = {} /\ after_first = <<>>

----------------------------------------------------------------------------
(* get_repositories_from_yaml *)

\* A YAML document is [kind, entries].  kind:
\*   "absent"              the file cannot be opened
\*   "malformed"           yaml.safe_load raises YAMLError
\*   "null"                the document is empty: root is None
\*   "scalar"              root is a string, a number or a list
\*   "no_repositories"     root is a mapping without the key `repositories`
\*   "repositories_null"   root['repositories'] is None or empty
\*   "repositories_scalar" root['repositories'] is a non-empty string or list
\*   "repositories"        root['repositories'] is a mapping: entries, in document order
\* An entry is [path, kind, keys]: kind "mapping" with the keys it holds, or
\* "null" / "scalar" when the value under the path is not a mapping.
Fields == {"type", "url", "version"}

AbsentDoc == [kind |-> "absent", entries |-> <<>>]

Attributes ==
    [kind : {"null", "scalar"}, keys : {{}}] \cup [kind : {"mapping"}, keys : SUBSET Fields]

EntriesOf(n) ==
    {[i \in 1..n |-> [path |-> ToString(i), kind |-> a[i].kind, keys |-> a[i].keys]] :
        a \in [1..n -> Attributes]}

Docs ==
    [kind : {"absent", "malformed", "null", "scalar", "no_repositories",
             "repositories_null", "repositories_scalar"}, entries : {<<>>}]
    \cup [kind : {"repositories"}, entries : UNION {EntriesOf(n) : n \in 1..MaxEntries}]

\* lines 204-211: the body of the loop for one entry.  exc is the exception
\* that leaves the inner try statement, "continue" the KeyError it handles.
read_entry(e) ==
    IF e.kind # "mapping" THEN [exc |-> "TypeError", repo |-> {}]
    ELSE IF "type" \notin e.keys \/ "url" \notin e.keys
         THEN [exc |-> "continue", repo |-> {}]
         ELSE [exc |-> "none", repo |-> e.keys \cap {"type", "url", "version"}]

\* lines 201-211: the loop; an exception other than KeyError ends it
RECURSIVE read_entries(_, _)
read_entries(entries, repos) ==
    IF entries = <<>> THEN [repos |-> repos, exc |-> "none"]
    ELSE LET r == read_entry(Head(entries))
         IN  IF r.exc = "continue" THEN read_entries(Tail(entries), repos)
             ELSE IF r.exc # "none" THEN [repos |-> repos, exc |-> r.exc]
             ELSE read_entries(Tail(entries),
                               Append(repos, [path |-> Head(entries).path, keys |-> r.repo]))

\* lines 196-211: the body of the outer try statement
load_repositories(doc) ==
    CASE doc.kind = "absent"              -> [repos |-> <<>>, exc |-> "OSError"]
      [] doc.kind = "malformed"           -> [repos |-> <<>>, exc |-> "YAMLError"]
      [] doc.kind = "null"                -> [repos |-> <<>>, exc |-> "TypeError"]
      [] doc.kind = "scalar"              -> [repos |-> <<>>, exc |-> "TypeError"]
      [] doc.kind = "no_repositories"     -> [repos |-> <<>>, exc |-> "KeyError"]
      [] doc.kind = "repositories_null"   -> [repos |-> <<>>, exc |-> "none"]
      [] doc.kind = "repositories_scalar" -> [repos |-> <<>>, exc |-> "TypeError"]
      [] doc.kind = "repositories"        -> read_entries(doc.entries, <<>>)

\* lines 193-215.  The except clause of line 212 handles YAMLError, KeyError
\* and TypeError; the return of the finally clause discards any other
\* exception in flight, so nothing is raised to the caller.
get_repositories_from_yaml(doc) ==
    LET r == load_repositories(doc)
    IN  [repos |-> r.repos, raised |-> FALSE, printed |-> r.exc \in {"YAMLError", "KeyError", "TypeError"}]

LoadManifest ==
    /\ pc = "load"
    /\ LET r == get_repositories_from_yaml(manifest)
       IN  /\ extra_repos' = r.repos
           /\ pc' = IF r.raised THEN "raised" ELSE "returned"
    /\ UNCHANGED <<failed_at, ran, nruns, env, pkgVars, packages_folder, manifest, mcu_src,
                   instVars, auxVars, outVars>>

InitYaml ==
    /\ pc = "load"
    /\ failed_at = "none" /\ ran = {} /\ nruns = 1 /\ env = "empty"
    /\ NoPackages
    /\ packages_folder = <<>> /\ extra_repos = <<>> /\ mcu_src = <<>>
    /\ manifest \in Docs
    /\ NoInstall /\ NoStaging /\ NoOutput

NextYaml == LoadManifest

SpecYaml == InitYaml /\ [][NextYaml]_vars

\* the entries of the document that hold both `type` and `url`
Complete(e) == e.kind = "mapping" /\ {"type", "url"} \subseteq e.keys
ExpectedRepos(doc) ==
    LET es == SelectSeq(doc.entries, Complete)
    IN  [i \in 1..Len(es) |-> [path |-> es[i].path, keys |-> es[i].keys]]

\* C5: the loader raises nothing and returns exactly the entries of
\* `repositories` that hold both `type` and `url`, `version` copied when
\* present; an empty mapping when the document has no such collection.
C5_ManifestPartialTolerance ==
    /\ pc # "raised"
    /\ pc = "returned" => extra_repos = ExpectedRepos(manifest)

----------------------------------------------------------------------------
(* download_extra_packages *)

ManifestName == "extra_packages.repos"
OvNames == {ManifestName, "pkg"}

\* extra_packages.repos names files only
PlainTrees == {t \in Trees(OvNames, MaxOverlayDepth, MaxNodes) :
                  \A d \in t.dirs : d[Len(d)] # ManifestName}
OverlayTrees == {Tagged(t, "overlay") : t \in PlainTrees}
SrcTrees == {Tagged(t, "src") : t \in PlainTrees}

\* manifests of an overlay folder: no repository, or the repository "pkg"
ManifestSamples ==
    {[kind |-> "repositories_null", entries |-> <<>>],
     [kind |-> "repositories",
      entries |-> <<[path |-> "pkg", kind |-> "mapping", keys |-> {"type", "url"}]>>]}

\* Repository.clone(folder) on success: <folder>/<name> holds the repository
clone(t, name) ==
    [files |-> {f \in t.files : f.path # <<name, ".git">>}
               \cup {[path |-> <<name, ".git">>, org |-> <<"clone", name>>]},
     dirs  |-> t.dirs \cup {<<name>>}]

\* whether git can clone into <folder>/<name>
can_clone(t, name) == ~IsFile(t, <<name>>)

\* shutil.copy2 of a file with content org and basename name to dst
copy2(org, t, name, dst) ==
    LET real_dst == IF IsDir(t, dst) THEN Append(dst, name) ELSE dst
    IN  IF IsDir(t, real_dst) THEN [t |-> t, err |-> TRUE]
        ELSE [t |-> [t EXCEPT !.files = {f \in @ : f.path # real_dst}
                                        \cup {[path |-> real_dst, org |-> org]}],
              err |-> FALSE]

\* the names shutil.ignore_patterns('extra_packages.repos') leaves, in any directory
not_ignored(names) == names \ {ManifestName}

\* shutil.copytree(src, dst, ignore=..., dirs_exist_ok=True) of the directory
\* rel of the tree ov onto the same relative path of the tree t
RECURSIVE copytree(_, _, _)
RECURSIVE copy_names(_, _, _, _, _)
copy_names(ov, t, rel, names, err) ==
    IF names = {} THEN [t |-> t, err |-> err]
    ELSE LET n == CHOOSE x \in names : TRUE
             s == Append(rel, n)
             r == IF IsDir(ov, s) THEN copytree(ov, t, s) ELSE copy2(OrgAt(ov, s), t, n, s)
         IN  copy_names(ov, r.t, rel, names \ {n}, err \/ r.err)

copytree(ov, t, rel) ==
    IF IsFile(t, rel) THEN [t |-> t, err |-> TRUE]
    ELSE copy_names(ov, makedirs(t, rel), rel, not_ignored(listdir(ov, rel)), FALSE)

\* lines 178-182: clone the repositories of the manifest in turn; the clones
\* after the first `good` ones fail
RECURSIVE clone_all(_, _, _)
clone_all(t, repos, good) ==
    IF repos = <<>> THEN [t |-> t, ok |-> TRUE]
    ELSE IF good = 0 \/ ~can_clone(t, Head(repos).path) THEN [t |-> t, ok |-> FALSE]
         ELSE clone_all(clone(t, Head(repos).path), Tail(repos), good - 1)

\* lines 169-191.  pf: the extra packages folder, <<>> or <<tree>>; doc: its
\* manifest; t: the source tree.  outcome "exit1": a clone failed.
download_extra_packages(pf, doc, t, good) ==
    IF pf = <<>> THEN [t |-> t, repos |-> <<>>, outcome |-> "returned"]
    ELSE LET repos == get_repositories_from_yaml(doc).repos
             cloned == clone_all(t, repos, good)
             copied == copytree(pf[1], cloned.t, <<>>)
         IN  IF ~cloned.ok THEN [t |-> cloned.t, repos |-> repos, outcome |-> "exit1"]
             ELSE [t |-> copied.t, repos |-> repos,
                   outcome |-> IF copied.err THEN "raised" ELSE "returned"]

\* the document read from <pf>/extra_packages.repos
ManifestsOf(pf) ==
    IF pf # <<>> /\ IsFile(pf[1], <<ManifestName>>) THEN ManifestSamples ELSE {AbsentDoc}

DownloadExtraPackages ==
    /\ pc = "download_extra_packages"
    /\ \E good \in 0..MaxEntries :
          LET r == download_extra_packages(packages_folder, manifest, mcu_src[1], good)
          IN  /\ mcu_src' = <<r.t>>
              /\ extra_repos' = r.repos
              /\ pc' = r.outcome
              /\ failed_at' = IF r.outcome = "exit1" THEN "clone" ELSE failed_at
    /\ UNCHANGED <<ran, nruns, env, pkgVars, packages_folder, manifest,
                   instVars, auxVars, outVars>>

InitOverlay ==
    /\ pc = "download_extra_packages"
    /\ failed_at = "none" /\ ran = {} /\ nruns = 1 /\ env = "prepared"
    /\ NoPackages
    /\ packages_folder \in {<<>>} \cup {<<t>> : t \in OverlayTrees}
    /\ manifest \in ManifestsOf(packages_folder)
    /\ extra_repos = <<>>
    /\ mcu_src \in {<<t>> : t \in SrcTrees}
    /\ NoInstall /\ NoStaging /\ NoOutput

NextOverlay == DownloadExtraPackages

SpecOverlay == InitOverlay /\ [][NextOverlay]_vars

\* C6: once an existing overlay folder has been applied, every file and
\* folder of it other than its manifest is in the source tree at the same
\* relative path, the files with the overlay's content, and the manifest of
\* the overlay is not in the source tree.
C6_OverlayPrecedence ==
    (pc = "returned" /\ packages_folder # <<>>) =>
        /\ \A f \in packages_folder[1].files :
              f.path # <<ManifestName>> => f \in mcu_src[1].files
        /\ \A d \in packages_folder[1].dirs :
              d # <<ManifestName>> => IsDir(mcu_src[1], d)
        /\ \A f \in mcu_src[1].files : f.org # <<"overlay", ManifestName>>

----------------------------------------------------------------------------
(* package_mcu_library: the archive merge *)

\* File names, character by character
DotA == <<".", "a">>
DotO == <<".", "o">>
DotObj == <<".", "o", "b", "j">>
Obj == <<"o", "b", "j">>
Sep == <<"_", "_">>

\* the files of <mcu>/install/lib: x.a, y.a, x.v.a and x.so
LibNames ==
    {<<"x", ".", "a">>, <<"y", ".", "a">>, <<"x", ".", "v", ".", "a">>, <<"x", ".", "s", "o">>}
\* the directories of <mcu>/install/lib that hold them
LibDirs == {<<>>, <<"sub">>}
\* the members of an archive: m.obj, n.obj and m.o
MemberNames ==
    {<<"m", ".", "o", "b", "j">>, <<"n", ".", "o", "b", "j">>, <<"m", ".", "o">>}
\* what one archive holds: {m.obj}, {m.o} or {m.obj, n.obj}
MemberSets ==
    {{<<"m", ".", "o", "b", "j">>}, {<<"m", ".", "o">>},
     {<<"m", ".", "o", "b", "j">>, <<"n", ".", "o", "b", "j">>}}

\* the sets of at most MaxArchives files, one per (directory, name)
ArchiveSets ==
    {x \in SubsetsUpTo([root : LibDirs, f : LibNames,
                        members : MemberSets], MaxArchives) :
        \A a, b \in x : (a.root = b.root /\ a.f = b.f) => a = b}

\* f.split('.')[0]
RECURSIVE split_first(_)
split_first(f) ==
    IF f = <<>> \/ Head(f) = "." THEN <<>> ELSE <<Head(f)>> \o split_first(Tail(f))

\* line 263: the name a member is staged under
staged_name(f, obj) == split_first(f) \o Sep \o obj

\* the files of a directory after the files of `new` are written into it
Overwrite(dir, new) == {x \in dir : x.name \notin {y.name : y \in new}} \cup new

\* line 261: `ar x` of archive a into the naming directory
ar_x(dir, a) ==
    Overwrite(dir, {[name |-> m, org |-> <<a.root, a.f, m>>] : m \in a.members})

\* line 262: the files of the naming directory the loop renames
to_rename(dir) == {x \in dir : EndsWith(x.name, Obj)}

\* lines 262-263: every such file is renamed into the aux folder
rename_staged(auxdir, dir, f) ==
    Overwrite(auxdir, {[name |-> staged_name(f, x.name), org |-> x.org] : x \in to_rename(dir)})

\* $(ls *.o *.obj) in the aux folder
globbed(auxdir) == {x \in auxdir : EndsWith(x.name, DotO) \/ EndsWith(x.name, DotObj)}

\* a package_mcu_library that forgets line 253
clean_library_path_skipped(x) == x

\* line 253: shutil.rmtree(self.library_path) removes the library and the includes
clean_library_path(x) == <<>>

\* lines 249-255
PackageClean ==
    /\ pc = "package"
    /\ ran' = ran \cup {"package"}
    /\ \E resolved \in BOOLEAN :
          IF ~resolved
          THEN /\ pc' = "exit1"
               /\ UNCHANGED <<auxVars, library, includes>>
          ELSE /\ pc' = "extract"
               /\ aux' = {}
               /\ naming' = {}
               /\ aux_lib' = <<>>
               /\ prev_library' = (library # <<>>)
               /\ library' = clean_library_path(library)
               /\ includes' = clean_library_path(includes)
               /\ walk_todo' = {a \in lib_tree : EndsWith(a.f, DotA)}
    /\ UNCHANGED <<failed_at, nruns, env, pkgVars, srcVars, instVars,
                   include_folders, after_first>>

\* lines 256-263, one archive; os.walk yields a directory before its
\* subdirectories.  status is the exit status of `ar x`, which is not read.
ExtractArchive ==
    /\ pc = "extract"
    /\ \E a \in walk_todo, status \in {0, 1} :
          /\ \A b \in walk_todo : Len(b.root) >= Len(a.root)
          /\ LET extracted == IF status = 0 THEN ar_x(naming, a) ELSE naming
             IN  /\ aux' = rename_staged(aux, extracted, a.f)
                 /\ naming' = extracted \ to_rename(extracted)
          /\ walk_todo' = walk_todo \ {a}
          /\ failed_at' = IF status # 0 THEN "extract" ELSE failed_at
    /\ UNCHANGED <<pc, ran, nruns, env, pkgVars, srcVars, instVars,
                   aux_lib, prev_library, outVars>>

\* lines 265-273: `ar rc ...; rm ...; ranlib ...` run by one shell, whose
\* status is the status of ranlib.  A failed `ar rc` writes no archive, and
\* ranlib fails on a missing archive.
ArchiveMembers ==
    /\ pc = "extract"
    /\ walk_todo = {}
    /\ \E ar_status \in {0, 1}, ranlib_status \in {0, 1} :
          LET members == globbed(aux)
              created == IF ar_status = 0 THEN <<members>> ELSE aux_lib
              returncode == IF created = <<>> THEN 1 ELSE ranlib_status
          IN  /\ aux' = aux \ members
              /\ failed_at' = IF ar_status # 0 \/ returncode # 0 THEN "archive" ELSE failed_at
              /\ IF returncode # 0
                 THEN /\ pc' = "exit1"
                      /\ aux_lib' = created
                      /\ UNCHANGED library
                 ELSE /\ pc' = "copy_includes"
                      /\ aux_lib' = <<>>
                      /\ library' = created
    /\ UNCHANGED <<ran, nruns, env, pkgVars, srcVars, instVars,
                   naming, walk_todo, prev_library, includes, include_folders, after_first>>

----------------------------------------------------------------------------
(* package_mcu_library: the include copy and the flatten loop *)

IncNames == {"pkg", "msg"}

IncludeTrees == Trees(IncNames, MaxDepth, MaxNodes)

\* shutil.move(src, dst) of a file, as copytree's copy_function
move(t, src, dst) ==
    LET real_dst == IF IsDir(t, dst) THEN Append(dst, src[Len(src)]) ELSE dst
    IN  IF IsDir(t, dst) /\ Exists(t, real_dst)
        THEN [t |-> t, err |-> TRUE]
        ELSE [t |-> [t EXCEPT !.files =
                        {f \in @ : f.path \notin {src, real_dst}}
                        \cup {[path |-> real_dst, org |-> OrgAt(t, src)]}],
              err |-> FALSE]

\* shutil.copytree(src, dst, copy_function=shutil.move, dirs_exist_ok=True);
\* order is the order in which os.scandir yields names.  err: shutil.Error
\* is raised once every entry has been tried.
RECURSIVE copytree_move(_, _, _, _)
RECURSIVE copy_entries(_, _, _, _, _, _)
copy_entries(t, entries, src, dst, order, err) ==
    IF entries = <<>> THEN [t |-> t, err |-> err]
    ELSE LET n == Head(entries)
             s == Append(src, n)
             d == Append(dst, n)
             r == IF IsDir(t, s) THEN copytree_move(t, s, d, order) ELSE move(t, s, d)
         IN  copy_entries(r.t, Tail(entries), src, dst, order, err \/ r.err)

copytree_move(t, src, dst, order) ==
    IF IsFile(t, dst) THEN [t |-> t, err |-> TRUE]
    ELSE copy_entries(makedirs(t, dst), InOrder(listdir(t, src), order), src, dst, order, FALSE)

\* a flatten that forgets line 287
remove_repeated_skipped(t, repeated_path) == t

\* shutil.rmtree(repeated_path) after the move
remove_repeated(t, repeated_path) == rmtree(t, repeated_path)

\* one iteration of the flatten loop, lines 281-287
flatten_folder(t, folder, order) ==
    LET folder_path == <<folder>>
        repeated_path == <<folder, folder>>
    IN  IF ~Exists(t, repeated_path) THEN [t |-> t, err |-> FALSE]
        ELSE IF IsFile(t, repeated_path) THEN [t |-> t, err |-> TRUE]
        ELSE LET r == copytree_move(t, repeated_path, folder_path, order)
             IN  IF r.err THEN r
                 ELSE [t |-> remove_repeated(r.t, repeated_path), err |-> FALSE]

\* lines 275-279: copy the installed include tree, list its folders
CopyIncludes ==
    /\ pc = "copy_includes"
    /\ ran' = ran \cup {"copy_includes"}
    /\ IF install_include = <<>> \/ includes # <<>>
       THEN /\ pc' = "raised"
            /\ UNCHANGED <<includes, include_folders>>
       ELSE /\ includes' = install_include
            /\ include_folders' = listdir(install_include[1], <<>>)
            /\ pc' = "flatten"
    /\ UNCHANGED <<failed_at, nruns, env, pkgVars, srcVars, instVars, auxVars,
                   library, after_first>>

\* lines 281-287, one folder
FlattenFolder ==
    /\ pc = "flatten"
    /\ \E folder \in include_folders, order \in Orders(NamesOf(includes[1])) :
          LET r == flatten_folder(includes[1], folder, order)
          IN  /\ includes' = <<r.t>>
              /\ include_folders' = include_folders \ {folder}
              /\ pc' = IF r.err THEN "raised" ELSE "flatten"
    /\ UNCHANGED <<failed_at, ran, nruns, env, pkgVars, srcVars, instVars, auxVars,
                   library, after_first>>

\* the loop of line 281 is exhausted: package_mcu_library and run return
FlattenReturn ==
    /\ pc = "flatten"
    /\ include_folders = {}
    /\ pc' = "returned"
    /\ UNCHANGED <<failed_at, ran, nruns, env, pkgVars, srcVars, instVars, auxVars, outVars>>

\* lines 279-287 run a second time on the tree the first pass produced
Reflatten ==
    /\ pc = "returned"
    /\ after_first = <<>>
    /\ includes # <<>>
    /\ after_first' = includes
    /\ include_folders' = listdir(includes[1], <<>>)
    /\ pc' = "flatten"
    /\ UNCHANGED <<failed_at, ran, nruns, env, pkgVars, srcVars, instVars, auxVars,
                   library, includes>>

InitFlat ==
    /\ pc = "copy_includes"
    /\ failed_at = "none" /\ ran = {} /\ nruns = 1 /\ env = "prepared"
    /\ NoPackages
    /\ packages_folder = <<>> /\ manifest = AbsentDoc /\ extra_repos = <<>> /\ mcu_src = <<>>
    /\ lib_tree = {}
    /\ install_include \in {<<t>> : t \in IncludeTrees}
    /\ NoStaging
    /\ library = <<{}>> /\ includes = <<>> /\ include_folders = {} /\ after_first = <<>>

NextFlat == CopyIncludes \/ FlattenFolder \/ FlattenReturn \/ Reflatten

SpecFlat == InitFlat /\ [][NextFlat]_vars

----------------------------------------------------------------------------
(* package_mcu_library called on its own *)

\* a library and include tree left by an earlier run
StaleLibrary == <<{[name |-> <<"o", "l", "d">>, org |-> <<"earlier run">>]}>>

\* an installed include tree with one self-nested package
IncludeSample ==
    TreeOf({[path |-> <<"pkg", "pkg", "msg">>, kind |-> "file"],
            [path |-> <<"pkg", "pkg", "srv", "msg">>, kind |-> "file"]})

----------------------------------------------------------------------------
(* The catalog (microros_utils.repositories) *)

\* Package names, character by character: a, a_cpp, t and z
PkgA == <<"a">>
PkgACpp == <<"a", "_", "c", "p", "p">>
PkgT == <<"t">>
PkgZ == <<"z">>
CppSuffix == <<"_", "c", "p", "p">>

\* Sources.dev_environments[distro]: the repositories of the host-side stage
dev_environments == <<[name |-> "ament", packages |-> <<<<"b">>>>]>>

\* Sources.mcu_environments[distro]: the repositories of the target stage
mcu_environments ==
    <<[name |-> "r1", packages |-> <<PkgA, PkgACpp>>],
      [name |-> "r2", packages |-> <<PkgT>>]>>

\* Sources.ignore_packages[distro]
ignore_packages == {PkgT}

\* Repository.get_packages(): the packages of a fetched repository
get_packages(repo) == [i \in DOMAIN repo.packages |-> [repo |-> repo.name, name |-> repo.packages[i]]]

\* Package.ignore() on each package of ps: its ignored attribute becomes True
ignore(marked, ps) == marked \cup ps

----------------------------------------------------------------------------
(* Build.run and its stages *)

\* a run that forgets the check of line 71
already_built_unchecked(lib) == FALSE

\* line 71: os.path.exists(self.library)
already_built(lib) == lib # <<>>

\* lines 70-73: run() is called; it returns at once when the library exists
Run ==
    /\ pc \in {"idle", "returned"}
    /\ nruns < MaxRuns
    /\ nruns' = nruns + 1
    /\ ran' = {}
    /\ pc' = IF already_built(library) THEN "returned" ELSE "check_env"
    /\ UNCHANGED <<failed_at, env, pkgVars, srcVars, instVars, auxVars, outVars>>

\* lines 82-85
ignore_package(marked, packages, name) ==
    ignore(marked, {p \in Range(packages) : p.name = name})

IgnorePackage ==
    /\ pc \in {"idle", "returned"}
    /\ \E name \in {PkgA, PkgACpp, PkgT, PkgZ} :
          ignored' = ignore_package(ignored, mcu_packages, name)
    /\ UNCHANGED <<ctlVars, dev_packages, mcu_packages, srcVars, instVars, auxVars, outVars>>

\* lines 87-115
CheckEnv ==
    /\ pc = "check_env"
    /\ ran' = ran \cup {"check_env"}
    /\ env' = "prepared"
    /\ pc' = "download_dev"
    /\ UNCHANGED <<failed_at, nruns, pkgVars, srcVars, instVars, auxVars, outVars>>

\* the packages of the first n repositories of a catalog
RECURSIVE packages_of(_, _)
packages_of(repos, n) ==
    IF n = 0 THEN <<>> ELSE packages_of(repos, n - 1) \o get_packages(repos[n])

\* lines 117-123; the clones after the first `good` ones fail, and
\* Repository.clone ends the process on a failed clone
DownloadDev ==
    /\ pc = "download_dev"
    /\ ran' = ran \cup {"download_dev"}
    /\ \E good \in 0..Len(dev_environments) :
          /\ dev_packages' = dev_packages \o packages_of(dev_environments, good)
          /\ IF good < Len(dev_environments)
             THEN pc' = "exit1" /\ failed_at' = "clone"
             ELSE pc' = "build_dev" /\ UNCHANGED failed_at
    /\ UNCHANGED <<nruns, env, mcu_packages, ignored, srcVars, instVars, auxVars, outVars>>

\* lines 125-153
BuildDev ==
    /\ pc = "build_dev"
    /\ ran' = ran \cup {"build_dev"}
    /\ \E returncode \in {0, 1} :
          IF returncode # 0
          THEN pc' = "exit1" /\ failed_at' = "build_dev"
          ELSE pc' = "download_mcu" /\ UNCHANGED failed_at
    /\ UNCHANGED <<nruns, env, pkgVars, srcVars, instVars, auxVars, outVars>>

\* a fetch that forgets the suffix rule of line 162
should_ignore_listed_only(name) == name \in ignore_packages

\* line 162
should_ignore(name) == name \in ignore_packages \/ EndsWith(name, CppSuffix)

\* lines 158-165 for the first n repositories: the source tree after their clones
RECURSIVE clone_catalog(_, _, _)
clone_catalog(t, repos, n) ==
    IF n = 0 THEN t ELSE clone(clone_catalog(t, repos, n - 1), repos[n].name)

\* lines 155-167; the catalog clones after the first `good` ones fail
DownloadMcu ==
    /\ pc = "download_mcu"
    /\ ran' = ran \cup {"download_mcu"}
    /\ \E good \in 0..Len(mcu_environments), good_extra \in 0..MaxEntries :
          LET fetched == packages_of(mcu_environments, good)
              t0 == IF mcu_src = <<>> THEN EmptyTree ELSE mcu_src[1]
              t1 == clone_catalog(t0, mcu_environments, good)
              r == download_extra_packages(packages_folder, manifest, t1, good_extra)
          IN  /\ mcu_packages' = mcu_packages \o fetched
              /\ ignored' = ignore(ignored, {p \in Range(fetched) : should_ignore(p.name)})
              /\ IF good < Len(mcu_environments)
                 THEN /\ pc' = "exit1"
                      /\ failed_at' = "clone"
                      /\ mcu_src' = <<t1>>
                      /\ UNCHANGED extra_repos
                 ELSE /\ pc' = IF r.outcome = "returned" THEN "build_mcu" ELSE r.outcome
                      /\ failed_at' = IF r.outcome = "exit1" THEN "clone" ELSE failed_at
                      /\ mcu_src' = <<r.t>>
                      /\ extra_repos' = r.repos
    /\ UNCHANGED <<nruns, env, dev_packages, packages_folder, manifest,
                   instVars, auxVars, outVars>>

\* what a successful cross-compiled build leaves under <mcu>/install/lib
LibSamples ==
    {{[root |-> <<>>, f |-> <<"x", ".", "a">>, members |-> {<<"m", ".", "o", "b", "j">>}],
      [root |-> <<>>, f |-> <<"y", ".", "a">>, members |-> {<<"m", ".", "o", "b", "j">>}]}}

\* what it leaves under <mcu>/install/include: IncludeSample, or a tree in
\* which a header and a directory of one package share a name
IncludeSamples ==
    {IncludeSample,
     TreeOf({[path |-> <<"pkg", "pkg", "msg", "msg">>, kind |-> "file"],
             [path |-> <<"pkg", "msg">>, kind |-> "file"]})}

\* lines 217-246
BuildMcu ==
    /\ pc = "build_mcu"
    /\ ran' = ran \cup {"build_mcu"}
    /\ \E returncode \in {0, 1} :
          IF returncode # 0
          THEN /\ pc' = "exit1"
               /\ failed_at' = "build_mcu"
               /\ UNCHANGED instVars
          ELSE /\ pc' = "package"
               /\ lib_tree' \in LibSamples
               /\ install_include' \in {<<t>> : t \in IncludeSamples}
               /\ UNCHANGED failed_at
    /\ UNCHANGED <<nruns, env, pkgVars, srcVars, auxVars, outVars>>

\* the process is interrupted inside run()
Interrupt ==
    /\ pc \in {"check_env", "download_dev", "build_dev", "download_mcu", "build_mcu",
               "package", "extract", "copy_includes", "flatten"}
    /\ pc' = "killed"
    /\ UNCHANGED <<failed_at, ran, nruns, env, pkgVars, srcVars, instVars, auxVars, outVars>>

\* lines 36-68: a new process constructs Build over the same folders
NewProcess ==
    /\ pc \in {"returned", "exit1", "raised", "killed"}
    /\ nruns < MaxRuns
    /\ pc' = "idle"
    /\ failed_at' = "none"
    /\ ran' = {}
    /\ env' = "empty"
    /\ dev_packages' = <<>>
    /\ mcu_packages' = <<>>
    /\ ignored' = {}
    /\ walk_todo' = {}
    /\ prev_library' = FALSE
    /\ include_folders' = {}
    /\ UNCHANGED <<nruns, srcVars, instVars, aux, naming, aux_lib, library, includes, after_first>>

\* an overlay folder with a manifest and one package
OverlaySample ==
    Tagged(TreeOf({[path |-> <<ManifestName>>, kind |-> "file"],
                   [path |-> <<"r1", "pkg">>, kind |-> "file"]}), "overlay")

Init ==
    /\ pc = "idle"
    /\ failed_at = "none" /\ ran = {} /\ nruns = 0 /\ env = "empty"
    /\ NoPackages
    /\ packages_folder \in {<<>>, <<OverlaySample>>}
    /\ manifest \in ManifestsOf(packages_folder)
    /\ extra_repos = <<>> /\ mcu_src = <<>>
    /\ NoInstall /\ NoStaging /\ NoOutput

Next ==
    \/ Run
    \/ IgnorePackage
    \/ CheckEnv
    \/ DownloadDev
    \/ BuildDev
    \/ DownloadMcu
    \/ BuildMcu
    \/ PackageClean
    \/ ExtractArchive
    \/ ArchiveMembers
    \/ CopyIncludes
    \/ FlattenFolder
    \/ FlattenReturn
    \/ Interrupt
    \/ NewProcess

Spec == Init /\ [][Next]_vars

InitMerge ==
    /\ pc = "package"
    /\ failed_at = "none" /\ ran = {} /\ nruns = 1 /\ env = "prepared"
    /\ NoPackages
    /\ packages_folder = <<>> /\ manifest = AbsentDoc /\ extra_repos = <<>> /\ mcu_src = <<>>
    /\ lib_tree \in ArchiveSets
    /\ install_include = <<IncludeSample>>
    /\ NoStaging
    /\ \/ library = <<>> /\ includes = <<>>
       \/ library = StaleLibrary /\ includes = <<EmptyTree>>
    /\ include_folders = {} /\ after_first = <<>>

NextMerge ==
    \/ PackageClean
    \/ ExtractArchive
    \/ ArchiveMembers
    \/ CopyIncludes
    \/ FlattenFolder
    \/ FlattenReturn

SpecMerge == InitMerge /\ [][NextMerge]_vars

\* the archives the walk of <mcu>/install/lib finds
InputArchives == {a \in lib_tree : EndsWith(a.f, DotA)}

\* the file name without its extension .a
Stem(f) == SubSeq(f, 1, Len(f) - Len(DotA))

\* one member per (archive, member), named <archive-stem>__<original-name>
MergedMembers ==
    {[name |-> Stem(a.f) \o Sep \o m, org |-> <<a.root, a.f, m>>] :
        <<a, m>> \in {<<b, n>> \in InputArchives \X MemberNames : n \in b.members}}

\* C1: after package_mcu_library has completed with every archiver call
\* succeeding, libmicroros.a holds exactly one member per (archive, member),
\* named <archive-stem>__<original-name>, and no two members share a name.
C1_MergedMembersUnique ==
    (pc = "returned" /\ failed_at = "none" /\ library # <<>>) =>
        /\ library[1] = MergedMembers
        /\ Cardinality({x.name : x \in library[1]}) = Cardinality(MergedMembers)

\* C2: when the archive creation or the index rebuild exits nonzero the run
\* ends with sys.exit(1) and the final library does not exist, also when a
\* library of an earlier run existed on entry.
C2_FailedMergeLeavesNoLibrary ==
    failed_at = "archive" => (pc = "exit1" /\ library = <<>> /\ includes = <<>>)

\* the merge failed in a build folder that held a library of an earlier run
C2_Witness ==
    /\ failed_at = "archive"
    /\ prev_library
    /\ pc = "exit1"
    /\ aux_lib # <<>>

\* C3: once an external tool has exited nonzero, the process has ended with
\* a nonzero status: no later stage or step runs.
C3_ToolFailureIsFatal ==
    failed_at # "none" => pc = "exit1"

\* a call of run() acts on a state in which the library exists
RunOnBuilt == pc \in {"idle", "returned"} /\ library # <<>> /\ nruns' # nruns

\* C4: run() called while libmicroros.a exists returns without entering any
\* stage and leaves the package lists and the filesystem unchanged.
C4_RunIsCacheHit ==
    [][RunOnBuilt =>
          /\ pc' = "returned"
          /\ ran' = {}
          /\ UNCHANGED <<env, pkgVars, srcVars, instVars, aux, naming, aux_lib,
                         library, includes>>]_vars

\* a second run() has returned as a cache hit after a first one built the library
C4_Witness ==
    /\ nruns = 2
    /\ pc = "returned"
    /\ ran = {}
    /\ library # <<>>
    /\ includes # <<>>
    /\ mcu_packages # <<>>

\* a step of the current process (every step but the start of a new one)
SameProcess == pc' # "idle" \/ pc = "idle"

\* a step of ignore_package
IgnoreStep == pc' = pc /\ pc \in {"idle", "returned"} /\ nruns' = nruns

\* C7: every registered package whose name is in the default ignore-list or
\* ends with _cpp is marked ignored once fetched; within one process no
\* package is unregistered or loses its mark; ignore_package changes nothing
\* but the marks of registered packages of that name, so nothing for a name
\* that matches none.
C7_IgnoreMonotonic ==
    /\ [](\A i \in DOMAIN mcu_packages :
             (mcu_packages[i].name \in {PkgT} \/ EndsWith(mcu_packages[i].name, CppSuffix))
                 => mcu_packages[i] \in ignored)
    /\ [][SameProcess =>
             /\ ignored \subseteq ignored'
             /\ Len(mcu_packages) <= Len(mcu_packages')
             /\ SubSeq(mcu_packages', 1, Len(mcu_packages)) = mcu_packages]_vars
    /\ [][IgnoreStep =>
             /\ ignored' \subseteq ignored \cup Range(mcu_packages)
             /\ UNCHANGED <<ctlVars, dev_packages, mcu_packages, srcVars, instVars,
                            auxVars, outVars>>]_vars

\* after a fetch that auto-ignored a_cpp and t, ignore_package has marked a
\* as well, and the marks of all three stand when run() has returned
C7_Witness ==
    /\ pc = "returned"
    /\ Len(mcu_packages) = 3
    /\ ignored = Range(mcu_packages)

\* the include tree beside the library is complete and flat
IncludesComplete ==
    /\ includes # <<>>
    /\ install_include # <<>>
    /\ \A d \in listdir(includes[1], <<>>) : ~Exists(includes[1], <<d, d>>)
    /\ \A f \in install_include[1].files : \E g \in includes[1].files : g.org = f.org

\* the process is not inside run()
AtRest == pc \in {"idle", "returned", "exit1", "raised", "killed"}

\* C10: whenever the process is at rest and libmicroros.a exists, the include
\* tree beside it has been copied and flattened completely.
C10_LibraryImpliesIncludes ==
    (AtRest /\ library # <<>>) => IncludesComplete

Flattened(path) == <<path[1]>> \o SubSeq(path, 3, Len(path))

\* C9: after a completed flatten pass every file that was at D/D/<p> is at
\* D/<p>, and the files of the directories without a self-nested duplicate
\* are where they were.
C9_NestedContentsMovedUp ==
    (pc = "returned" /\ after_first = <<>> /\ includes # <<>>) =>
        \A f \in install_include[1].files :
            /\ (Len(f.path) >= 3 /\ f.path[1] = f.path[2]) =>
                   [path |-> Flattened(f.path), org |-> f.path] \in includes[1].files
            /\ ~Exists(install_include[1], <<f.path[1], f.path[1]>>) =>
                   f \in includes[1].files

=============================================================================
